---------------------------- MODULE Spec2Model ----------------------------
(***************************************************************************)
(* Packed-bit storage of fastbloom-rs (src/fastbloom-rs/src/vec.rs):       *)
(* BloomBitVec, a word-addressed bit vector with word-wise boolean         *)
(* algebra, and CountingVec over Vec<usize>, 4-bit saturating counters     *)
(* packed into machine words.                                              *)
(*                                                                         *)
(* A usize value is modelled by the set of its one-bit positions, so that  *)
(* shifts, masks and complements are computed bit by bit at the full word  *)
(* width of the build target.                                              *)
(***************************************************************************)
EXTENDS Integers, Sequences, FiniteSets, TLC

VARIABLES
    width,      \* target_pointer_width of the build: 32 or 64
    checks,     \* overflow-checks of the build: TRUE (debug), FALSE (release)
    bv,         \* the BloomBitVec: [storage, nbits]
    other,      \* the operand vector of the boolean operations
    cv,         \* the CountingVec's storage, a Vec<usize>
    ret,        \* outcome of the last call: [op, status, bool, num]
    ref,        \* history: per counter index, the reference saturating fold
    net,        \* history: per counter index, increments minus decrements
    peak,       \* history: per counter index, the highest value net has had
    under       \* history: per counter index, a decrement outnumbered increments

vars == <<width, checks, bv, other, cv, ret, ref, net, peak, under>>

-----------------------------------------------------------------------------
(* Bounds of the model *)

MaxSlots == 2
MaxNet == 17
MaxUnder == 2

-----------------------------------------------------------------------------
(* Constants of the program *)

USIZE_LEN == 64
COUNTER_PER_SLOT == USIZE_LEN \div 4

-----------------------------------------------------------------------------
(* usize values as sets of bit positions *)

Bits == 0 .. (width - 1)

\* The usize holding the small number n (n < 2^8).
U(n) == {p \in 0 .. 7 : p \in Bits /\ (n \div (2 ^ p)) % 2 = 1}

RECURSIVE N(_)
\* The number a usize holds (for values below 2^8).
N(word) ==
    IF word = {} THEN 0
    ELSE LET p == CHOOSE q \in word : TRUE
         IN (2 ^ p) + N(word \ {p})

BitOr(a, b) == a \cup b
BitAnd(a, b) == a \cap b
BitXor(a, b) == (a \ b) \cup (b \ a)
BitNot(a) == Bits \ a

\* A shift by k < width: bits moved out of the word are lost.
ShlBits(a, k) == {p + k : p \in a} \cap Bits
ShrBits(a, k) == {p - k : p \in {q \in a : q >= k}}

\* A shift by k >= width overflows: a panic with overflow-checks, and the
\* amount masked to the word width without.
ShiftPanics(k) == checks /\ k >= width
ShiftAmount(k) == k % width
Shl(a, k) == ShlBits(a, ShiftAmount(k))
Shr(a, k) == ShrBits(a, ShiftAmount(k))

\* usize values that stay small (indices, shift amounts) are kept as numbers:
\* a right shift by k halves k times, and a mask is and-ed bit by bit.
NatShr(n, k) == n \div (2 ^ k)

RECURSIVE NatAnd(_, _)
NatAnd(a, b) ==
    IF a = 0 \/ b = 0 THEN 0
    ELSE (a % 2) * (b % 2) + 2 * NatAnd(a \div 2, b \div 2)

\* crate::builder::SUFFIX, the mask of the bit-in-word part of a bit index.
SUFFIX == width - 1

-----------------------------------------------------------------------------
(* Outcomes of a call *)

Unit(op) == [op |-> op, status |-> "ok", bool |-> FALSE, num |-> 0]
Bool(op, b) == [op |-> op, status |-> "ok", bool |-> b, num |-> 0]
Num(op, n) == [op |-> op, status |-> "ok", bool |-> FALSE, num |-> n]
Panic(op) == [op |-> op, status |-> "panic", bool |-> FALSE, num |-> 0]

\* Vec<usize> indexing, self[slot]: a panic unless slot < len.
InBounds(storage, slot) == slot < Len(storage)

Filled(slots, word) == [k \in 1 .. slots |-> word]

-----------------------------------------------------------------------------
(* BloomBitVec *)

BloomBitVec_new(slots) ==
    [storage |-> Filled(slots, {}), nbits |-> slots * COUNTER_PER_SLOT]

BloomBitVec_from_elem(slots, bit) ==
    [storage |-> Filled(slots, IF bit THEN BitNot({}) ELSE {}),
     nbits |-> slots * COUNTER_PER_SLOT]

WordShift == IF width = 64 THEN 6 ELSE 5
\* Mutant: a word index beyond the vector wraps onto a word it holds.
WordOfWrapped(index) ==
    LET w == NatShr(index, WordShift)
    IN IF Len(bv.storage) = 0 THEN w ELSE w % Len(bv.storage)
WordOf(index) == NatShr(index, WordShift)
BitOf(index) == NatAnd(index, SUFFIX)
Flag(index) == Shl(U(1), BitOf(index))

\* Mutant: the flag is assigned to the word instead of or-ed into it.
SetWordAssign(word, flag) == flag
SetWord(word, flag) == BitOr(word, flag)
TestWord(word, flag) == BitAnd(word, flag) # {}

\* BloomBitVec::get on an index whose word exists.
BloomBitVec_get(storage, index) ==
    TestWord(storage[WordOf(index) + 1], Flag(index))

Set(index) ==
    /\ IF InBounds(bv.storage, WordOf(index))
       THEN /\ bv' = [bv EXCEPT !.storage[WordOf(index) + 1] =
                                    SetWord(@, Flag(index))]
            /\ ret' = Unit("set")
       ELSE /\ bv' = bv
            /\ ret' = Panic("set")
    /\ UNCHANGED <<width, checks, other, cv, ref, net, peak, under>>

Get(index) ==
    /\ ret' = IF InBounds(bv.storage, WordOf(index))
              THEN Bool("get", BloomBitVec_get(bv.storage, index))
              ELSE Panic("get")
    /\ UNCHANGED <<width, checks, bv, other, cv, ref, net, peak, under>>

\* self.storage.iter_mut().zip(&other.storage): the words are paired by
\* position up to the shorter of the two vectors, and updated in place.
ZipLen(s, o) == IF Len(s) <= Len(o) THEN Len(s) ELSE Len(o)
\* Mutant: the result is collected from the zipped pairs alone.
InPlaceLenZipped(s, o) == ZipLen(s, o)
InPlaceLen(s, o) == Len(s)

OrWord(m, o) == BitOr(m, o)
XorWord(m, o) == BitXor(m, o)
NorWord(m, o) == BitNot(BitOr(m, o))
\* Mutant: the complement is left out.
XnorWordPlain(m, o) == BitXor(m, o)
XnorWord(m, o) == BitNot(BitXor(m, o))
AndWord(m, o) == BitAnd(m, o)
NandWord(m, o) == BitNot(BitAnd(m, o))
DifferenceWord(m, o) == BitAnd(m, BitNot(o))

BloomBitVec_or(s, o) ==
    [k \in 1 .. InPlaceLen(s, o) |->
        IF k <= ZipLen(s, o) THEN OrWord(s[k], o[k]) ELSE s[k]]
BloomBitVec_xor(s, o) ==
    [k \in 1 .. InPlaceLen(s, o) |->
        IF k <= ZipLen(s, o) THEN XorWord(s[k], o[k]) ELSE s[k]]
BloomBitVec_nor(s, o) ==
    [k \in 1 .. InPlaceLen(s, o) |->
        IF k <= ZipLen(s, o) THEN NorWord(s[k], o[k]) ELSE s[k]]
BloomBitVec_xnor(s, o) ==
    [k \in 1 .. InPlaceLen(s, o) |->
        IF k <= ZipLen(s, o) THEN XnorWord(s[k], o[k]) ELSE s[k]]
BloomBitVec_and(s, o) ==
    [k \in 1 .. InPlaceLen(s, o) |->
        IF k <= ZipLen(s, o) THEN AndWord(s[k], o[k]) ELSE s[k]]
BloomBitVec_nand(s, o) ==
    [k \in 1 .. InPlaceLen(s, o) |->
        IF k <= ZipLen(s, o) THEN NandWord(s[k], o[k]) ELSE s[k]]
BloomBitVec_difference(s, o) ==
    [k \in 1 .. InPlaceLen(s, o) |->
        IF k <= ZipLen(s, o) THEN DifferenceWord(s[k], o[k]) ELSE s[k]]

Combine(op, storage) ==
    /\ bv' = [bv EXCEPT !.storage = storage]
    /\ ret' = Unit(op)
    /\ UNCHANGED <<width, checks, other, cv, ref, net, peak, under>>

Or == Combine("or", BloomBitVec_or(bv.storage, other.storage))
Xor == Combine("xor", BloomBitVec_xor(bv.storage, other.storage))
Nor == Combine("nor", BloomBitVec_nor(bv.storage, other.storage))
Xnor == Combine("xnor", BloomBitVec_xnor(bv.storage, other.storage))
And == Combine("and", BloomBitVec_and(bv.storage, other.storage))
Nand == Combine("nand", BloomBitVec_nand(bv.storage, other.storage))
Difference ==
    Combine("difference", BloomBitVec_difference(bv.storage, other.storage))

\* self.storage.fill(0)
Fill(storage, word) == [k \in 1 .. Len(storage) |-> word]

Clear ==
    /\ bv' = [bv EXCEPT !.storage = Fill(bv.storage, {})]
    /\ ret' = Unit("clear")
    /\ UNCHANGED <<width, checks, other, cv, ref, net, peak, under>>

\* Mutant: emptiness read off the bits instead of the length.
IsEmptyByBits(storage) == \A k \in 1 .. Len(storage) : storage[k] = {}
BloomBitVec_is_empty(storage) == Len(storage) = 0

IsEmpty ==
    /\ ret' = Bool("is_empty", BloomBitVec_is_empty(bv.storage))
    /\ UNCHANGED <<width, checks, bv, other, cv, ref, net, peak, under>>

-----------------------------------------------------------------------------
(* Storage and StorageMut for Vec<usize> *)

Vec_new(slots) == Filled(slots, {})
Vec_get(storage, slot) == storage[slot + 1]
Vec_slots(storage) == Len(storage)

\* The closure's result: Some(word) replaces the slot, None leaves it.
Some(word) == [some |-> TRUE, v |-> word]
None == [some |-> FALSE, v |-> {}]

\* StorageMut::update on a slot that exists, given op(self[slot]).
Vec_update(storage, slot, res) ==
    IF res.some THEN [storage EXCEPT ![slot + 1] = res.v] ELSE storage

-----------------------------------------------------------------------------
(* CountingVec<Vec<usize>> *)

SlotOf(index) == NatShr(index, 4)
NibbleOf(index) == NatAnd(index, 15)
MoveBits(index) == (15 - NibbleOf(index)) * 4

Current(slot, index) == N(BitAnd(Shr(slot, MoveBits(index)), U(15)))

\* Mutant: the nibble is written without the other counters of the word.
ReplaceAlone(slot, index, current) == Shl(U(current), MoveBits(index))
Replace(slot, index, current) ==
    BitOr(BitAnd(slot, BitNot(Shl(U(15), MoveBits(index)))),
          Shl(U(current), MoveBits(index)))

\* CountingVec::get on an index whose slot exists.
CountingVec_get(storage, index) ==
    Current(Vec_get(storage, SlotOf(index)), index)

CountingVec_counters(storage) == Vec_slots(storage) * COUNTER_PER_SLOT

\* Mutant: no saturation check, the nibble wraps from 15 to 0.
IncrementOpWrapping(slot, index) ==
    Some(Replace(slot, index, (Current(slot, index) + 1) % 16))
\* Mutant: the counter saturates one short of 15.
IncrementOpEarly(slot, index) ==
    LET current == Current(slot, index)
    IN IF current < 14
       THEN Some(Replace(slot, index, current + 1))
       ELSE None
IncrementOp(slot, index) ==
    LET current == Current(slot, index)
    IN IF current # 15
       THEN Some(Replace(slot, index, current + 1))
       ELSE None

DecrementOp(slot, index) ==
    LET current == Current(slot, index)
    IN IF current > 0
       THEN Some(Replace(slot, index, current - 1))
       ELSE None

\* A call that reads slot SlotOf(index) and shifts by MoveBits(index) ends in
\* a panic when the slot does not exist or the shift overflows under
\* overflow-checks.
CounterPanics(storage, index) ==
    \/ ~InBounds(storage, SlotOf(index))
    \/ ShiftPanics(MoveBits(index))

CountGetCall(index) ==
    /\ ret' = IF CounterPanics(cv, index)
              THEN Panic("count_get")
              ELSE Num("count_get", CountingVec_get(cv, index))
    /\ UNCHANGED <<width, checks, bv, other, cv>>

IncrementCall(index) ==
    /\ IF CounterPanics(cv, index)
       THEN /\ cv' = cv
            /\ ret' = Panic("increment")
       ELSE /\ cv' = Vec_update(cv, SlotOf(index),
                        IncrementOp(Vec_get(cv, SlotOf(index)), index))
            /\ ret' = Unit("increment")
    /\ UNCHANGED <<width, checks, bv, other>>

DecrementCall(index) ==
    /\ IF CounterPanics(cv, index)
       THEN /\ cv' = cv
            /\ ret' = Panic("decrement")
       ELSE /\ cv' = Vec_update(cv, SlotOf(index),
                        DecrementOp(Vec_get(cv, SlotOf(index)), index))
            /\ ret' = Unit("decrement")
    /\ UNCHANGED <<width, checks, bv, other>>

-----------------------------------------------------------------------------
(* History of the calls made on each counter index *)

\* The reference saturating counter.
RefInc(v) == IF v + 1 > 15 THEN 15 ELSE v + 1
RefDec(v) == IF v - 1 < 0 THEN 0 ELSE v - 1

Higher(a, b) == IF a >= b THEN a ELSE b

Applied == ret'.status = "ok"

\* The fold of the reference counter over the calls that returned.
FoldInc(index) ==
    ref' = IF Applied THEN [ref EXCEPT ![index] = RefInc(@)] ELSE ref
FoldDec(index) ==
    ref' = IF Applied THEN [ref EXCEPT ![index] = RefDec(@)] ELSE ref

\* The count of increments over decrements, its highest value, and whether a
\* prefix of the calls had more decrements than increments.
CountInc(index) ==
    /\ net' = [net EXCEPT ![index] = @ + 1]
    /\ peak' = [peak EXCEPT ![index] = Higher(@, net[index] + 1)]
    /\ under' = under
CountDec(index) ==
    /\ net' = [net EXCEPT ![index] = @ - 1]
    /\ peak' = peak
    /\ under' = [under EXCEPT ![index] = @ \/ net[index] - 1 < 0]

CountGet(index) ==
    CountGetCall(index) /\ UNCHANGED <<ref, net, peak, under>>

Counters ==
    /\ ret' = Num("counters", CountingVec_counters(cv))
    /\ UNCHANGED <<width, checks, bv, other, cv, ref, net, peak, under>>

Increment(index) ==
    IncrementCall(index) /\ FoldInc(index) /\ UNCHANGED <<net, peak, under>>

Decrement(index) ==
    DecrementCall(index) /\ FoldDec(index) /\ UNCHANGED <<net, peak, under>>

\* The same calls with the history counted, the counts kept within bounds.
IncrementCounted(index) ==
    /\ net[index] < MaxNet
    /\ IncrementCall(index) /\ FoldInc(index) /\ CountInc(index)

DecrementCounted(index) ==
    /\ net[index] > 0 - MaxUnder
    /\ DecrementCall(index) /\ FoldDec(index) /\ CountDec(index)

-----------------------------------------------------------------------------
(* Inputs *)

Widths == {32, 64}

\* Bit indices: two neighbours in one word, one further up, one beyond any
\* vector of the model.
BitIdx == {37, 38, 100, (MaxSlots + 1) * USIZE_LEN + 37}

\* test_vec: 16 words, set(37), set(38); with them bit 5, the same bit of an
\* earlier word on the 32-bit target, and an index beyond the 16 words.
TestSlots == 16
SetIdx == {5, 37, 38, 100, TestSlots * USIZE_LEN + 37}

\* Counter indices: two neighbours in one slot and one in the next slot (which
\* a vector of one slot does not have).
CountIdx == {7, 8, 16}
SatIdx == {7}

Zeros == [i \in CountIdx |-> 0]

\* The operand: from_elem(n, bit), or new(n) after set(37) on a vector that
\* holds bit 37.
Operands ==
    {BloomBitVec_from_elem(n, bit) : n \in 0 .. MaxSlots + 1, bit \in BOOLEAN}
    \cup {[BloomBitVec_new(n) EXCEPT
              !.storage[WordOf(37) + 1] = SetWord(@, Flag(37))] :
              n \in WordOf(37) + 1 .. MaxSlots + 1}

\* Indices at the edge of the vectors' capacity: the last one inside (when
\* there is one), the first one beyond, and one far beyond.
EdgeBitIdx ==
    {i \in {Len(bv.storage) * width - 1, Len(bv.storage) * width,
            (MaxSlots + 1) * USIZE_LEN + 37} : i >= 0}
EdgeCountIdx ==
    {7, CountingVec_counters(cv), (MaxSlots + 1) * COUNTER_PER_SLOT + 7}

-----------------------------------------------------------------------------
(* Specifications *)

NoBits == BloomBitVec_new(0)

InitHistory ==
    /\ ref = Zeros
    /\ net = Zeros
    /\ peak = Zeros
    /\ under = [i \in CountIdx |-> FALSE]

\* A vector built by new, then set and read.  No shift of the bit vector can
\* reach the word width (BitOf(index) < width), nor can one of the counting
\* vector on the 64-bit target (MoveBits(index) <= 60), so the build's
\* overflow checks play no part there and only InitTargets and InitRange
\* draw them.
InitSet ==
    /\ width \in Widths
    /\ checks = TRUE
    /\ \E slots \in (0 .. MaxSlots) \cup {TestSlots} :
          bv = BloomBitVec_new(slots)
    /\ other = NoBits
    /\ cv = Vec_new(0)
    /\ ret = Unit("new")
    /\ InitHistory

NextSet ==
    \/ \E index \in SetIdx : Set(index)
    \/ \E index \in SetIdx : Get(index)

SpecSet == InitSet /\ [][NextSet]_vars

\* The bit vector on both targets.
InitBits ==
    /\ width \in Widths
    /\ checks = TRUE
    /\ \E slots \in 0 .. MaxSlots :
          bv \in {BloomBitVec_new(slots), BloomBitVec_from_elem(slots, TRUE),
                  BloomBitVec_from_elem(slots, FALSE)}
    /\ other \in Operands
    /\ cv = Vec_new(0)
    /\ ret = Unit("new")
    /\ InitHistory

NextBits ==
    \/ \E index \in BitIdx : Set(index)
    \/ \E index \in BitIdx : Get(index)
    \/ Or
    \/ Xor
    \/ Nor
    \/ Xnor
    \/ And
    \/ Nand
    \/ Difference
    \/ Clear
    \/ IsEmpty

SpecBits == InitBits /\ [][NextBits]_vars

\* The counting vector on the 64-bit target, where usize has USIZE_LEN bits.
InitCount ==
    /\ width = USIZE_LEN
    /\ checks = TRUE
    /\ bv = NoBits
    /\ other = NoBits
    /\ \E slots \in 1 .. MaxSlots : cv = Vec_new(slots)
    /\ ret = Unit("new")
    /\ InitHistory

NextCount ==
    \/ \E index \in CountIdx : Increment(index)
    \/ \E index \in CountIdx : Decrement(index)

SpecCount == InitCount /\ [][NextCount]_vars

\* One counter with the history of its calls counted.
NextSat ==
    \/ \E index \in SatIdx : CountGet(index)
    \/ \E index \in SatIdx : IncrementCounted(index)
    \/ \E index \in SatIdx : DecrementCounted(index)

SpecSat == InitCount /\ [][NextSat]_vars

\* The counting vector on both targets.
InitTargets ==
    /\ width \in Widths
    /\ checks \in BOOLEAN
    /\ bv = NoBits
    /\ other = NoBits
    /\ \E slots \in 1 .. MaxSlots : cv = Vec_new(slots)
    /\ ret = Unit("new")
    /\ InitHistory

NextTargets ==
    \/ \E index \in CountIdx : CountGet(index)
    \/ \E index \in CountIdx : Increment(index)
    \/ \E index \in CountIdx : Decrement(index)
    \/ Counters

SpecTargets == InitTargets /\ [][NextTargets]_vars

\* Both vectors on both targets, called at the edge of their capacity.
InitRange ==
    /\ width \in Widths
    /\ checks \in BOOLEAN
    /\ \E slots \in 0 .. MaxSlots : bv = BloomBitVec_new(slots)
    /\ other = NoBits
    /\ \E slots \in 1 .. MaxSlots : cv = Vec_new(slots)
    /\ ret = Unit("new")
    /\ InitHistory

NextRange ==
    \/ \E index \in EdgeBitIdx : Set(index)
    \/ \E index \in EdgeBitIdx : Get(index)
    \/ \E index \in EdgeCountIdx : CountGet(index)
    \/ \E index \in EdgeCountIdx : Increment(index)
    \/ \E index \in EdgeCountIdx : Decrement(index)

SpecRange == InitRange /\ [][NextRange]_vars

-----------------------------------------------------------------------------
(* Properties *)

\* Total addressable bits of a bit vector: word count times bits per word.
Capacity(storage) == Len(storage) * width
ValidBits(storage) == 0 .. Capacity(storage) - 1
ValidCounters(storage) == 0 .. CountingVec_counters(storage) - 1

Zero(storage) == \A k \in 1 .. Len(storage) : storage[k] = {}

\* C1: after set(i) on a valid bit index, get(i) is true and get(j) keeps its
\* value for every other valid j.
C1_SetGetFrame ==
    [][\A i \in SetIdx :
          (i < Capacity(bv.storage) /\ Set(i)) =>
              /\ ret'.status = "ok"
              /\ BloomBitVec_get(bv'.storage, i)
              /\ \A j \in ValidBits(bv.storage) \ {i} :
                    BloomBitVec_get(bv'.storage, j)
                        = BloomBitVec_get(bv.storage, j)]_vars

\* After set(37) and set(38) on a fresh vector: 37 and 38 read true, 36 and
\* 39 read false.
C1_Witness ==
    /\ ret = Unit("set")
    /\ Capacity(bv.storage) > 39
    /\ BloomBitVec_get(bv.storage, 37)
    /\ BloomBitVec_get(bv.storage, 38)
    /\ ~BloomBitVec_get(bv.storage, 36)
    /\ ~BloomBitVec_get(bv.storage, 39)

\* C5: on vectors of equal length, xnor, nand and nor yield at every bit the
\* complement of what xor, and and or yield, difference yields A and not B,
\* and the operand is left as it was.
C5_ComplementLaws ==
    [][Len(bv.storage) = Len(other.storage) =>
          /\ Xnor => \A i \in ValidBits(bv.storage) :
                BloomBitVec_get(bv'.storage, i) =
                    ~BloomBitVec_get(
                        BloomBitVec_xor(bv.storage, other.storage), i)
          /\ Nand => \A i \in ValidBits(bv.storage) :
                BloomBitVec_get(bv'.storage, i) =
                    ~BloomBitVec_get(
                        BloomBitVec_and(bv.storage, other.storage), i)
          /\ Nor => \A i \in ValidBits(bv.storage) :
                BloomBitVec_get(bv'.storage, i) =
                    ~BloomBitVec_get(
                        BloomBitVec_or(bv.storage, other.storage), i)
          /\ Difference => \A i \in ValidBits(bv.storage) :
                BloomBitVec_get(bv'.storage, i) =
                    (BloomBitVec_get(bv.storage, i)
                        /\ ~BloomBitVec_get(other.storage, i))
          /\ (Xnor \/ Nand \/ Nor \/ Difference) => other' = other]_vars

\* An xnor of two equally long vectors that left a word of mixed bits.
C5_Witness ==
    /\ ret = Unit("xnor")
    /\ Len(bv.storage) = Len(other.storage)
    /\ \E k \in 1 .. Len(bv.storage) : bv.storage[k] \notin {{}, Bits}

\* C7: COUNTER_PER_SLOT is the word width in bits, so that nbits is the number
\* of addressable bits, slots times bits per word.
C7_NbitsIsCapacity ==
    /\ COUNTER_PER_SLOT = width
    /\ bv.nbits = Capacity(bv.storage)

\* C9: clear leaves every valid bit false and the word count as it was;
\* is_empty returns whether the word count is zero, and no call changes what
\* it returns.
C9_ClearAndIsEmpty ==
    [][/\ Clear =>
            /\ \A i \in ValidBits(bv'.storage) :
                  ~BloomBitVec_get(bv'.storage, i)
            /\ Len(bv'.storage) = Len(bv.storage)
       /\ IsEmpty => ret'.bool = (Len(bv.storage) = 0)
       /\ BloomBitVec_is_empty(bv'.storage)
              = BloomBitVec_is_empty(bv.storage)]_vars

\* A vector with words, cleared: all false, and not empty.
C9_Witness ==
    /\ ret = Unit("clear")
    /\ Len(bv.storage) > 0
    /\ Zero(bv.storage)
    /\ ~BloomBitVec_is_empty(bv.storage)

\* What the operation named op yields on s and o.
Result(op, s, o) ==
    CASE op = "or" -> BloomBitVec_or(s, o)
      [] op = "xor" -> BloomBitVec_xor(s, o)
      [] op = "nor" -> BloomBitVec_nor(s, o)
      [] op = "xnor" -> BloomBitVec_xnor(s, o)
      [] op = "and" -> BloomBitVec_and(s, o)
      [] op = "nand" -> BloomBitVec_nand(s, o)
      [] op = "difference" -> BloomBitVec_difference(s, o)

\* C10: on vectors of differing word counts a boolean operation reports no
\* failure, keeps self's word count, keeps every word of self at a position
\* the operand does not have, and yields what it yields on the operand cut to
\* self's length.
C10_Truncates ==
    [][(/\ Len(bv.storage) # Len(other.storage)
        /\ (Or \/ Xor \/ Nor \/ Xnor \/ And \/ Nand \/ Difference)) =>
          /\ ret'.status = "ok"
          /\ Len(bv'.storage) = Len(bv.storage)
          /\ \A k \in 1 .. Len(bv.storage) :
                k > Len(other.storage) => bv'.storage[k] = bv.storage[k]
          /\ bv'.storage =
                Result(ret'.op, bv.storage,
                       SubSeq(other.storage, 1,
                              ZipLen(bv.storage, other.storage)))]_vars

\* An and with a shorter all-zero operand: the first word is cleared, the
\* second keeps its bits.
C10_Witness ==
    /\ ret = Unit("and")
    /\ Len(bv.storage) = 2
    /\ Len(other.storage) = 1
    /\ bv.storage[1] = {}
    /\ bv.storage[2] # {}

\* C4: a call with an index beyond capacity ends in a panic and leaves both
\* vectors as they were.
C4_BeyondCapacityFails ==
    [][/\ \A i \in EdgeBitIdx :
            (i >= Capacity(bv.storage) /\ (Set(i) \/ Get(i))) =>
                ret'.status = "panic" /\ bv' = bv /\ cv' = cv
       /\ \A i \in EdgeCountIdx :
            (/\ i >= CountingVec_counters(cv)
             /\ (CountGet(i) \/ Increment(i) \/ Decrement(i))) =>
                ret'.status = "panic" /\ bv' = bv /\ cv' = cv]_vars

\* A set beyond capacity has panicked on vectors that hold bits and counts.
C4_Witness ==
    /\ ret = Panic("set")
    /\ ~Zero(bv.storage)
    /\ ~Zero(cv)

\* C2: the counter at every valid index equals the fold of the reference
\* saturating counter (min(v+1, 15), max(v-1, 0)) over the calls made on it.
C2_FoldsReference ==
    \A i \in CountIdx :
        i \in ValidCounters(cv) => CountingVec_get(cv, i) = ref[i]

\* An increment has returned with the counter at 15.
C2_Witness ==
    /\ ret = Unit("increment")
    /\ ref[7] = 15
    /\ CountingVec_get(cv, 7) = 15

\* C3: increment(i) and decrement(i) on a valid index leave get(j) as it was
\* for every other valid j, in the same word or another.
C3_CounterFrame ==
    [][\A i \in CountIdx :
          (i \in ValidCounters(cv) /\ (Increment(i) \/ Decrement(i))) =>
              \A j \in ValidCounters(cv) \ {i} :
                  CountingVec_get(cv', j) = CountingVec_get(cv, j)]_vars

\* Counter 7 saturated beside counter 8 at 0 and counter 16, in the next
\* word, at 1.
C3_Witness ==
    /\ ret = Unit("increment")
    /\ Len(cv) = 2
    /\ CountingVec_get(cv, 7) = 15
    /\ CountingVec_get(cv, 8) = 0
    /\ CountingVec_get(cv, 16) = 1

\* C6 as stated: with no prefix of the calls holding more decrements than
\* increments, more increments than decrements in all give a non-zero counter.
C6_NonZeroAfterRemoval ==
    \A i \in SatIdx :
        (~under[i] /\ net[i] > 0) => CountingVec_get(cv, i) # 0

\* C6 as amended: the same, when moreover the increments never exceeded the
\* decrements by more than 15.
C6_NonZeroBelowSaturation ==
    \A i \in SatIdx :
        (~under[i] /\ net[i] > 0 /\ peak[i] <= 15) =>
            CountingVec_get(cv, i) # 0

\* Fifteen increments and fourteen decrements: the counter reads 1.
C6_Witness ==
    /\ ~under[7]
    /\ peak[7] = 15
    /\ net[7] = 1
    /\ CountingVec_get(cv, 7) = 1

\* C8: counters() is the slot count times a quarter of the word width (16 per
\* 64-bit word, 8 per 32-bit word), and the 4-bit field of every index below
\* it lies inside the word.
C8_CountersFitWord ==
    /\ CountingVec_counters(cv) = Len(cv) * (width \div 4)
    /\ \A i \in ValidCounters(cv) : MoveBits(i) + 4 <= width

=============================================================================
